---- MODULE Spec2Model ----
(***************************************************************************)
(* Referential model of the travel API: Trip documents with embedded       *)
(* segments and stays, Album documents and MediaItem documents, and the    *)
(* route handlers that read and write them.  Every handler is one atomic   *)
(* action (one request processed to completion).                           *)
(***************************************************************************)
EXTENDS Integers, FiniteSets, Sequences, TLC

\* ------------------------------------------------------------------------
\* Bounds
MaxTrips  == 1      \* Trip documents ever created
MaxItems  == 1      \* distinct segment / stay identifiers a client uses
MaxAlbums == 3      \* Album documents ever created
MaxMedia  == 2      \* MediaItem documents ever created
MaxDate   == 3      \* distinct days a client uses for segment / stay dates
YearLen   == 2      \* days of one calendar year
MaxRequests == 2    \* requests handled one store operation at a time

\* An unset reference (undefined / null ObjectId)
None == 0

TripIds  == 1..MaxTrips
ItemIds  == 1..MaxItems
AlbumIds == 1..MaxAlbums
MediaIds == 1..MaxMedia

ItemTypes  == {"segment", "stay"}
MediaTypes == {"photo", "note"}

VARIABLES
  trips,      \* collection trips:      _id -> Trip document
  albums,     \* collection albums:     _id -> Album document
  media,      \* collection mediaitems: _id -> MediaItem document
  nextTrip,   \* next generated Trip _id
  nextAlbum,  \* next generated Album _id
  nextMedia,  \* next generated MediaItem _id
  resp,       \* the response to the last request
  requests    \* the requests handled one store operation at a time, in order of arrival

vars == <<trips, albums, media, nextTrip, nextAlbum, nextMedia, resp, requests>>
db   == <<trips, albums, media>>

\* ------------------------------------------------------------------------
\* Document-store helpers
Insert(coll, id, doc) == [x \in DOMAIN coll \cup {id} |-> IF x = id THEN doc ELSE coll[x]]
Remove(coll, ids)     == [x \in DOMAIN coll \ ids |-> coll[x]]

\* res.status(code).json(...)
Reply(op, id, status, path) ==
  [op |-> op, id |-> id, ref |-> None, status |-> status, path |-> path]

\* ------------------------------------------------------------------------
\* models/Trip.js

\* Date values, as days since the epoch; None is an absent Date
Dates == 1..MaxDate

\* segmentSchema: date (required) and defaultAlbumId
Segment(defaultAlbumId, date) == [defaultAlbumId |-> defaultAlbumId, date |-> date]

\* staySchema: dateStart, dateEnd (required) and defaultAlbumId
Stay(defaultAlbumId, dateStart, dateEnd) ==
  [defaultAlbumId |-> defaultAlbumId, dateStart |-> dateStart, dateEnd |-> dateEnd]

\* an unset dateRange
NoRange == [start |-> None, end |-> None, year |-> None]

\* new Trip({ tripName, segments, stays }): the embedded arrays are _id -> subdocument
Trip(segments, stays) ==
  [segments |-> segments, stays |-> stays,
   startDate |-> None, endDate |-> None, dateRange |-> NoRange]

\* schema validation on save: the required dates of every subdocument are present
tripValid(trip) ==
  /\ \A i \in DOMAIN trip.segments : trip.segments[i].date # None
  /\ \A i \in DOMAIN trip.stays :
       trip.stays[i].dateStart # None /\ trip.stays[i].dateEnd # None

\* the stay end dates left out of the union
allDates_NoStayEnd(trip) ==
  {trip.segments[i].date : i \in DOMAIN trip.segments}
    \cup {trip.stays[i].dateStart : i \in DOMAIN trip.stays}

\* [...segmentDates, ...stayStartDates, ...stayEndDates]
allDates(trip) ==
  {trip.segments[i].date : i \in DOMAIN trip.segments}
    \cup {trip.stays[i].dateStart : i \in DOMAIN trip.stays}
    \cup {trip.stays[i].dateEnd : i \in DOMAIN trip.stays}

\* Math.min(...allDates) / Math.max(...allDates)
MathMin(S) == CHOOSE x \in S : \A y \in S : x <= y
MathMax(S) == CHOOSE x \in S : \A y \in S : x >= y

\* date.getFullYear()
getFullYear(date) == date \div YearLen

\* formatDate: `${month} ${day}`, the position of the day within its year
formatDate(date) == date % YearLen

\* tripSchema.pre('save'): the three fields are assigned only when allDates is
\* not empty
preSave(trip) ==
  IF allDates(trip) # {}
  THEN [trip EXCEPT
          !.startDate = MathMin(allDates(trip)),
          !.endDate   = MathMax(allDates(trip)),
          !.dateRange = [start |-> formatDate(MathMin(allDates(trip))),
                         end   |-> formatDate(MathMax(allDates(trip))),
                         year  |-> getFullYear(MathMax(allDates(trip)))]]
  ELSE trip

\* defaultAlbumId of the embedded segments / stays of a Trip: _id -> defaultAlbumId
ItemsOf(trip, itemType) ==
  IF itemType = "segment"
  THEN [i \in DOMAIN trip.segments |-> trip.segments[i].defaultAlbumId]
  ELSE [i \in DOMAIN trip.stays |-> trip.stays[i].defaultAlbumId]

\* the subdocument looked up in both arrays
subdocId_AnyArray(trip, itemType, itemId) ==
  itemId \in DOMAIN trip.segments \cup DOMAIN trip.stays

\* trip.segments.id(itemId) / trip.stays.id(itemId)
subdocId(trip, itemType, itemId) == itemId \in DOMAIN ItemsOf(trip, itemType)

\* segment.defaultAlbumId = albumId (no effect when the subdocument is absent)
setDefaultAlbumId(trip, itemType, itemId, albumId) ==
  IF ~subdocId(trip, itemType, itemId) THEN trip
  ELSE IF itemType = "segment"
       THEN [trip EXCEPT !.segments[itemId].defaultAlbumId = albumId]
       ELSE [trip EXCEPT !.stays[itemId].defaultAlbumId = albumId]

\* payloads a client can send for a segments / stays array, with the
\* defaultAlbumId values drawn from ptrs and the dates from dates
ItemPayloads(itemType, ptrs, dates) ==
  IF itemType = "segment"
  THEN UNION {[S -> {Segment(p, d) : p \in ptrs, d \in dates}] : S \in SUBSET ItemIds}
  ELSE UNION {[S -> {Stay(p, d[1], d[2]) : p \in ptrs, d \in dates \X dates}]
              : S \in SUBSET ItemIds}

\* ------------------------------------------------------------------------
\* models/Album.js

\* relatedItem: { type, itemId }
Rel(type, itemId) == [type |-> type, itemId |-> itemId]

\* the validation without the required condition on itemId
relatedItemValid_EnumOnly(rel) == rel.type \in {"segment", "stay", "trip"}

\* schema validation of relatedItem: enum on type, itemId required unless trip
relatedItemValid(rel) ==
  /\ rel.type \in {"segment", "stay", "trip"}
  /\ (rel.type # "trip" => rel.itemId # None)

\* messages.join(', ') of the ValidationError of an invalid relatedItem
validationMessages(rel) ==
  IF rel.type \in {"segment", "stay", "trip"} THEN "itemId required"
  ELSE IF rel.itemId # None THEN "type enum"
  ELSE "type enum, itemId required"

\* a String field the document or the request body does not carry
Undefined == "undefined"

\* a new Album document; the requests explored carry no description
Album(name, tripId, rel, isDefault) ==
  [name |-> name, description |-> Undefined, tripId |-> tripId, relatedItem |-> rel,
   isDefault |-> isDefault, coverImageId |-> None]

\* ------------------------------------------------------------------------
\* models/MediaItem.js
MediaItem(albumId, type, content) ==
  [albumId |-> albumId, type |-> type, content |-> content]

\* ------------------------------------------------------------------------
Init ==
  /\ trips = <<>>
  /\ albums = <<>>
  /\ media = <<>>
  /\ nextTrip = 1
  /\ nextAlbum = 1
  /\ nextMedia = 1
  /\ resp = Reply("none", None, 0, "none")
  /\ requests = <<>>

\* ------------------------------------------------------------------------
\* controllers/tripController.js

\* a segments / stays array the request body leaves out
NotSupplied == [i \in {None} |-> None]

\* POST /api/trips
createTrip(segments, stays) ==
  /\ IF segments = NotSupplied \/ stays = NotSupplied
     THEN /\ resp' = Reply("createTrip", None, 400, "missingFields")
          /\ UNCHANGED <<trips, nextTrip>>
     ELSE IF ~tripValid(Trip(segments, stays))
     THEN /\ resp' = Reply("createTrip", None, 400, "validation")
          /\ UNCHANGED <<trips, nextTrip>>
     ELSE /\ nextTrip <= MaxTrips
          /\ trips' = Insert(trips, nextTrip, preSave(Trip(segments, stays)))
          /\ nextTrip' = nextTrip + 1
          /\ resp' = Reply("createTrip", nextTrip, 201, "created")
  /\ UNCHANGED <<albums, media, nextAlbum, nextMedia, requests>>

\* PUT /api/trips/:id
updateTrip(id, segments, stays) ==
  /\ IF id \notin DOMAIN trips
     THEN /\ resp' = Reply("updateTrip", id, 404, "notFound")
          /\ UNCHANGED trips
     ELSE LET trip == [trips[id] EXCEPT
                         !.segments = IF segments # NotSupplied THEN segments ELSE @,
                         !.stays    = IF stays # NotSupplied THEN stays ELSE @]
          IN IF ~tripValid(trip)
             THEN /\ resp' = Reply("updateTrip", id, 400, "validation")
                  /\ UNCHANGED trips
             ELSE /\ trips' = [trips EXCEPT ![id] = preSave(trip)]
                  /\ resp' = Reply("updateTrip", id, 200, "updated")
  /\ UNCHANGED <<albums, media, nextTrip, nextAlbum, nextMedia, requests>>

\* DELETE /api/trips/:id
deleteTrip(id) ==
  /\ IF id \notin DOMAIN trips
     THEN /\ resp' = Reply("deleteTrip", id, 404, "notFound")
          /\ UNCHANGED trips
     ELSE /\ trips' = Remove(trips, {id})
          /\ resp' = Reply("deleteTrip", id, 200, "removed")
  /\ UNCHANGED <<albums, media, nextTrip, nextAlbum, nextMedia, requests>>

\* ------------------------------------------------------------------------
\* routes/albumRoutes.js

\* req.body.relatedItem left out by the client
NoRel == Rel("absent", None)

\* the query without its 'relatedItem.type' condition
albumsForItem_AnyType(tripId, itemType, itemId) ==
  {b \in DOMAIN albums : /\ albums[b].tripId = tripId
                         /\ albums[b].relatedItem.itemId = itemId}

\* Album.find({ tripId, 'relatedItem.type', 'relatedItem.itemId' })
albumsForItem(tripId, itemType, itemId) ==
  {b \in DOMAIN albums : /\ albums[b].tripId = tripId
                         /\ albums[b].relatedItem.type = itemType
                         /\ albums[b].relatedItem.itemId = itemId}

\* Album.findOne({ tripId, 'relatedItem.type', 'relatedItem.itemId', isDefault: true })
existingDefaultAlbum(tripId, itemType, itemId) ==
  {b \in albumsForItem(tripId, itemType, itemId) : albums[b].isDefault}

\* the query without its _id: { $ne } condition
otherAlbums_WithSelf(id) ==
  albumsForItem(albums[id].tripId, albums[id].relatedItem.type,
                albums[id].relatedItem.itemId)

\* Album.find({ tripId, 'relatedItem.type', 'relatedItem.itemId', _id: { $ne: album._id } })
otherAlbums(id) ==
  albumsForItem(albums[id].tripId, albums[id].relatedItem.type,
                albums[id].relatedItem.itemId) \ {id}

\* the Trip left as it was read
writeDefaultAlbumId_Skipped(tripId, itemType, itemId, albumId) == trips

\* the Trip collection after Trip.findById(tripId), item.defaultAlbumId = albumId,
\* trip.save(); nothing is written when the Trip is missing
writeDefaultAlbumId(tripId, itemType, itemId, albumId) ==
  IF tripId \in DOMAIN trips
  THEN [trips EXCEPT ![tripId] =
          preSave(setDefaultAlbumId(trips[tripId], itemType, itemId, albumId))]
  ELSE trips

\* name generated for a default album: `${itemName} Album`
defaultAlbumName == "item Album"

\* description generated for a default album: `Default album for ${itemName}`
defaultAlbumDescription == "Default album for item"

\* POST /api/albums
createAlbum(name, tripId, relatedItem, isDefault) ==
  LET rel == IF relatedItem = NoRel THEN Rel("trip", None) ELSE relatedItem IN
  /\ IF name = "" \/ tripId = None
     THEN /\ resp' = Reply("createAlbum", None, 400, "missingFields")
          /\ UNCHANGED <<trips, albums, nextAlbum>>
     ELSE IF ~relatedItemValid(rel)
     THEN /\ resp' = Reply("createAlbum", None, 400, validationMessages(rel))
          /\ UNCHANGED <<trips, albums, nextAlbum>>
     ELSE /\ nextAlbum <= MaxAlbums
          /\ albums' = Insert(albums, nextAlbum, Album(name, tripId, rel, isDefault))
          /\ nextAlbum' = nextAlbum + 1
          /\ trips' = IF isDefault /\ relatedItem # NoRel /\ relatedItem.type # "trip"
                      THEN writeDefaultAlbumId(tripId, relatedItem.type,
                                               relatedItem.itemId, nextAlbum)
                      ELSE trips
          /\ resp' = Reply("createAlbum", nextAlbum, 201, "created")
  /\ UNCHANGED <<media, nextTrip, nextMedia, requests>>

\* POST /api/albums/default/:tripId/:itemType/:itemId
ensureDefaultAlbum(tripId, itemType, itemId) ==
  /\ IF itemType \notin ItemTypes
     THEN /\ resp' = Reply("ensureDefaultAlbum", None, 400, "invalidType")
          /\ UNCHANGED <<trips, albums, nextAlbum>>
     ELSE IF tripId \notin DOMAIN trips
     THEN /\ resp' = Reply("ensureDefaultAlbum", None, 404, "tripNotFound")
          /\ UNCHANGED <<trips, albums, nextAlbum>>
     ELSE IF ~subdocId(trips[tripId], itemType, itemId)
     THEN /\ resp' = Reply("ensureDefaultAlbum", None, 404, "itemNotFound")
          /\ UNCHANGED <<trips, albums, nextAlbum>>
     ELSE IF existingDefaultAlbum(tripId, itemType, itemId) # {}
     THEN /\ \E b \in existingDefaultAlbum(tripId, itemType, itemId) :
               resp' = Reply("ensureDefaultAlbum", b, 400, "exists")
          /\ UNCHANGED <<trips, albums, nextAlbum>>
     ELSE /\ nextAlbum <= MaxAlbums
          /\ albums' = Insert(albums, nextAlbum,
                              [Album(defaultAlbumName, tripId, Rel(itemType, itemId), TRUE)
                                 EXCEPT !.description = defaultAlbumDescription])
          /\ nextAlbum' = nextAlbum + 1
          /\ trips' = writeDefaultAlbumId(tripId, itemType, itemId, nextAlbum)
          /\ resp' = Reply("ensureDefaultAlbum", nextAlbum, 201, "created")
  /\ UNCHANGED <<media, nextTrip, nextMedia, requests>>

\* MediaItem.findOne({ _id: coverImageId, albumId: album._id, type: 'photo' })
coverImageValid(id, coverImageId) ==
  /\ coverImageId \in DOMAIN media
  /\ media[coverImageId].albumId = id
  /\ media[coverImageId].type = "photo"

\* the document saved with its new name and description before the cover is looked up
updateAlbum_SavedBeforeCover(id, name, description, coverImageId) ==
  /\ IF id \notin DOMAIN albums
     THEN /\ resp' = Reply("updateAlbum", id, 404, "notFound")
          /\ UNCHANGED albums
     ELSE IF coverImageId # None /\ ~coverImageValid(id, coverImageId)
     THEN /\ resp' = Reply("updateAlbum", id, 400, "invalidCover")
          /\ albums' = [albums EXCEPT
                          ![id].name = IF name # "" THEN name ELSE @,
                          ![id].description = IF description # Undefined THEN description ELSE @]
     ELSE /\ albums' = [albums EXCEPT
                          ![id].name = IF name # "" THEN name ELSE @,
                          ![id].description = IF description # Undefined THEN description ELSE @,
                          ![id].coverImageId = IF coverImageId # None THEN coverImageId ELSE @]
          /\ resp' = Reply("updateAlbum", id, 200, "updated")
  /\ UNCHANGED <<trips, media, nextTrip, nextAlbum, nextMedia, requests>>

\* PUT /api/albums/:id   (name = "" and coverImageId = None are falsy: the field
\* is left; description = Undefined: not supplied)
updateAlbum(id, name, description, coverImageId) ==
  /\ IF id \notin DOMAIN albums
     THEN /\ resp' = Reply("updateAlbum", id, 404, "notFound")
          /\ UNCHANGED albums
     ELSE IF coverImageId # None /\ ~coverImageValid(id, coverImageId)
     THEN /\ resp' = Reply("updateAlbum", id, 400, "invalidCover")
          /\ UNCHANGED albums
     ELSE /\ albums' = [albums EXCEPT
                          ![id].name = IF name # "" THEN name ELSE @,
                          ![id].description = IF description # Undefined THEN description ELSE @,
                          ![id].coverImageId = IF coverImageId # None THEN coverImageId ELSE @]
          /\ resp' = Reply("updateAlbum", id, 200, "updated")
  /\ UNCHANGED <<trips, media, nextTrip, nextAlbum, nextMedia, requests>>

\* the albums collection after otherAlbums[0].isDefault = true; otherAlbums[0].save(),
\* which runs only when the Trip and the related item are found
promoteAlbum(id, first) ==
  LET album == albums[id] IN
  IF /\ album.tripId \in DOMAIN trips
     /\ subdocId(trips[album.tripId], album.relatedItem.type, album.relatedItem.itemId)
  THEN [albums EXCEPT ![first].isDefault = TRUE]
  ELSE albums

\* the cascade left out
deleteManyMedia_Skipped(id) == media

\* the filter written on _id instead of albumId
deleteManyMedia_ById(id) == Remove(media, {id})

\* MediaItem.deleteMany({ albumId: album._id })
deleteManyMedia(id) == Remove(media, {m \in DOMAIN media : media[m].albumId = id})

\* the reassignment entered for every segment / stay album, default or not
deleteAlbum_ReassignAnyAlbum(id) ==
  /\ IF id \notin DOMAIN albums
     THEN /\ resp' = Reply("deleteAlbum", id, 404, "notFound")
          /\ UNCHANGED <<trips, albums, media>>
     ELSE IF albums[id].relatedItem.type # "trip"
     THEN IF otherAlbums(id) = {}
          THEN /\ resp' = Reply("deleteAlbum", id, 400, "soleAlbum")
               /\ UNCHANGED <<trips, albums, media>>
          ELSE \E first \in otherAlbums(id) :
               /\ trips' = writeDefaultAlbumId(albums[id].tripId, albums[id].relatedItem.type,
                                               albums[id].relatedItem.itemId, first)
               /\ albums' = Remove(promoteAlbum(id, first), {id})
               /\ media' = deleteManyMedia(id)
               /\ resp' = Reply("deleteAlbum", id, 200, "reassigned")
     ELSE /\ albums' = Remove(albums, {id})
          /\ media' = deleteManyMedia(id)
          /\ resp' = Reply("deleteAlbum", id, 200, "deleted")
          /\ UNCHANGED trips
  /\ UNCHANGED <<nextTrip, nextAlbum, nextMedia, requests>>

\* DELETE /api/albums/:id
deleteAlbum(id) ==
  /\ IF id \notin DOMAIN albums
     THEN /\ resp' = Reply("deleteAlbum", id, 404, "notFound")
          /\ UNCHANGED <<trips, albums, media>>
     ELSE IF albums[id].isDefault /\ albums[id].relatedItem.type # "trip"
     THEN IF otherAlbums(id) = {}
          THEN /\ resp' = Reply("deleteAlbum", id, 400, "soleAlbum")
               /\ UNCHANGED <<trips, albums, media>>
          ELSE \E first \in otherAlbums(id) :
               /\ trips' = writeDefaultAlbumId(albums[id].tripId, albums[id].relatedItem.type,
                                               albums[id].relatedItem.itemId, first)
               /\ albums' = Remove(promoteAlbum(id, first), {id})
               /\ media' = deleteManyMedia(id)
               /\ resp' = Reply("deleteAlbum", id, 200, "reassigned")
     ELSE /\ albums' = Remove(albums, {id})
          /\ media' = deleteManyMedia(id)
          /\ resp' = Reply("deleteAlbum", id, 200, "deleted")
          /\ UNCHANGED trips
  /\ UNCHANGED <<nextTrip, nextAlbum, nextMedia, requests>>

\* ------------------------------------------------------------------------
\* routes/albumRoutes.js: requests during which the store rejects one write.
\* The rejected await throws, the writes before it stay, the catch block
\* answers 500.

\* the writes of ensureDefaultAlbum, in the order the handler awaits them
EnsureWrites == {"album.save", "trip.save"}

\* the new Album removed again when the Trip cannot be saved
ensureDefaultAlbumRejected_RolledBack(tripId, itemType, itemId, rejected) ==
  /\ itemType \in ItemTypes
  /\ tripId \in DOMAIN trips
  /\ subdocId(trips[tripId], itemType, itemId)
  /\ existingDefaultAlbum(tripId, itemType, itemId) = {}
  /\ rejected \in EnsureWrites
  /\ UNCHANGED <<albums, nextAlbum>>
  /\ resp' = Reply("ensureDefaultAlbum", None, 500, rejected)
  /\ UNCHANGED <<trips, media, nextTrip, nextMedia, requests>>

\* POST /api/albums/default/:tripId/:itemType/:itemId, the write `rejected` failing
ensureDefaultAlbumRejected(tripId, itemType, itemId, rejected) ==
  /\ itemType \in ItemTypes
  /\ tripId \in DOMAIN trips
  /\ subdocId(trips[tripId], itemType, itemId)
  /\ existingDefaultAlbum(tripId, itemType, itemId) = {}
  /\ IF rejected = "album.save"
     THEN UNCHANGED <<albums, nextAlbum>>
     ELSE /\ rejected = "trip.save"
          /\ nextAlbum <= MaxAlbums
          /\ albums' = Insert(albums, nextAlbum,
                              [Album(defaultAlbumName, tripId, Rel(itemType, itemId), TRUE)
                                 EXCEPT !.description = defaultAlbumDescription])
          /\ nextAlbum' = nextAlbum + 1
  /\ resp' = Reply("ensureDefaultAlbum", None, 500, rejected)
  /\ UNCHANGED <<trips, media, nextTrip, nextMedia, requests>>

\* the writes of deleteAlbum, in the order the handler awaits them
DeleteWrites == {"otherAlbum.save", "trip.save", "deleteMany", "album.remove"}

\* deleteAlbum enters its reassignment block and finds another album
reassigns(id) ==
  /\ albums[id].isDefault /\ albums[id].relatedItem.type # "trip"
  /\ otherAlbums(id) # {}

\* the Album removed although an earlier write was rejected
deleteAlbumRejected_AlbumRemoved(id, rejected) ==
  /\ id \in DOMAIN albums
  /\ (albums[id].isDefault /\ albums[id].relatedItem.type # "trip") => otherAlbums(id) # {}
  /\ rejected \in {"deleteMany", "album.remove"}
  /\ \E deleted \in SUBSET {m \in DOMAIN media : media[m].albumId = id} :
       media' = Remove(media, deleted)
  /\ albums' = Remove(albums, {id})
  /\ UNCHANGED trips
  /\ resp' = Reply("deleteAlbum", id, 500, rejected)
  /\ UNCHANGED <<nextTrip, nextAlbum, nextMedia, requests>>

\* DELETE /api/albums/:id, the write `rejected` failing; a rejected deleteMany
\* may have deleted any part of the album's MediaItems
deleteAlbumRejected(id, rejected) ==
  /\ id \in DOMAIN albums
  /\ (albums[id].isDefault /\ albums[id].relatedItem.type # "trip") => otherAlbums(id) # {}
  /\ \E first \in (IF reassigns(id) THEN otherAlbums(id) ELSE {None}) :
       LET albums1 == IF reassigns(id) THEN promoteAlbum(id, first) ELSE albums
           trips1  == IF reassigns(id)
                      THEN writeDefaultAlbumId(albums[id].tripId, albums[id].relatedItem.type,
                                               albums[id].relatedItem.itemId, first)
                      ELSE trips
       IN CASE rejected = "otherAlbum.save" ->
                 /\ reassigns(id) /\ albums1 # albums
                 /\ UNCHANGED <<trips, albums, media>>
            [] rejected = "trip.save" ->
                 /\ reassigns(id) /\ albums[id].tripId \in DOMAIN trips
                 /\ albums' = albums1
                 /\ UNCHANGED <<trips, media>>
            [] rejected = "deleteMany" ->
                 /\ albums' = albums1
                 /\ trips' = trips1
                 /\ \E deleted \in SUBSET {m \in DOMAIN media : media[m].albumId = id} :
                      media' = Remove(media, deleted)
            [] rejected = "album.remove" ->
                 /\ albums' = albums1
                 /\ trips' = trips1
                 /\ media' = deleteManyMedia(id)
  /\ resp' = Reply("deleteAlbum", id, 500, rejected)
  /\ UNCHANGED <<nextTrip, nextAlbum, nextMedia, requests>>

\* ------------------------------------------------------------------------
\* routes/mediaRoutes.js

\* the query without its _id: { $ne } condition
anotherPhoto_WithSelf(albumId, id) ==
  LET photos == {p \in DOMAIN media : media[p].albumId = albumId /\ media[p].type = "photo"}
  IN IF photos = {} THEN {None} ELSE photos

\* MediaItem.findOne({ albumId, type: 'photo', _id: { $ne: id } }): the documents
\* the query can return (the store fixes no order), None when there is none
anotherPhoto(albumId, id) ==
  LET photos == {p \in DOMAIN media \ {id} :
                   media[p].albumId = albumId /\ media[p].type = "photo"}
  IN IF photos = {} THEN {None} ELSE photos

\* the first MediaItem of any type made the cover
createMedia_AnyTypeCover(albumId, type, content) ==
  /\ IF type = "" \/ content = ""
     THEN /\ resp' = Reply("createMedia", None, 400, "missingFields")
          /\ UNCHANGED <<albums, media, nextMedia>>
     ELSE IF type \notin MediaTypes
     THEN /\ resp' = Reply("createMedia", None, 400, "invalidType")
          /\ UNCHANGED <<albums, media, nextMedia>>
     ELSE IF albumId \notin DOMAIN albums
     THEN /\ resp' = Reply("createMedia", None, 404, "albumNotFound")
          /\ UNCHANGED <<albums, media, nextMedia>>
     ELSE /\ nextMedia <= MaxMedia
          /\ media' = Insert(media, nextMedia, MediaItem(albumId, type, content))
          /\ nextMedia' = nextMedia + 1
          /\ albums' = IF albums[albumId].coverImageId = None
                       THEN [albums EXCEPT ![albumId].coverImageId = nextMedia]
                       ELSE albums
          /\ resp' = Reply("createMedia", nextMedia, 201, "created")
  /\ UNCHANGED <<trips, nextTrip, nextAlbum, requests>>

\* POST /api/media/album/:albumId   (type = "" / content = "": not supplied)
createMedia(albumId, type, content) ==
  /\ IF type = "" \/ content = ""
     THEN /\ resp' = Reply("createMedia", None, 400, "missingFields")
          /\ UNCHANGED <<albums, media, nextMedia>>
     ELSE IF type \notin MediaTypes
     THEN /\ resp' = Reply("createMedia", None, 400, "invalidType")
          /\ UNCHANGED <<albums, media, nextMedia>>
     ELSE IF albumId \notin DOMAIN albums
     THEN /\ resp' = Reply("createMedia", None, 404, "albumNotFound")
          /\ UNCHANGED <<albums, media, nextMedia>>
     ELSE /\ nextMedia <= MaxMedia
          /\ media' = Insert(media, nextMedia, MediaItem(albumId, type, content))
          /\ nextMedia' = nextMedia + 1
          /\ albums' = IF type = "photo" /\ albums[albumId].coverImageId = None
                       THEN [albums EXCEPT ![albumId].coverImageId = nextMedia]
                       ELSE albums
          /\ resp' = Reply("createMedia", nextMedia, 201, "created")
  /\ UNCHANGED <<trips, nextTrip, nextAlbum, requests>>

\* PUT /api/media/:id   (caption and sortOrder are not part of the modelled state)
updateMedia(id) ==
  /\ IF id \notin DOMAIN media
     THEN resp' = Reply("updateMedia", id, 404, "notFound")
     ELSE resp' = Reply("updateMedia", id, 200, "updated")
  /\ UNCHANGED <<trips, albums, media, nextTrip, nextAlbum, nextMedia, requests>>

\* album && album.coverImageId && album.coverImageId.toString() === id
isCover(albumId, id) ==
  albumId \in DOMAIN albums /\ albums[albumId].coverImageId = id

\* the cover left as it is
replaceCover_Skipped(albumId, id, photo) == albums

\* the albums collection after the cover of album albumId, when it is the
\* MediaItem id, has been replaced by photo (or unset) and the album saved
replaceCover(albumId, id, photo) ==
  IF isCover(albumId, id)
  THEN [albums EXCEPT ![albumId].coverImageId = photo]
  ELSE albums

\* DELETE /api/media/:id
deleteMedia(id) ==
  /\ IF id \notin DOMAIN media
     THEN /\ resp' = Reply("deleteMedia", id, 404, "notFound")
          /\ UNCHANGED <<albums, media>>
     ELSE \E photo \in anotherPhoto(media[id].albumId, id) :
          /\ albums' = replaceCover(media[id].albumId, id, photo)
          /\ media' = Remove(media, {id})
          /\ resp' = Reply("deleteMedia", id, 200,
                           IF isCover(media[id].albumId, id) THEN "coverReplaced" ELSE "deleted")
  /\ UNCHANGED <<trips, nextTrip, nextAlbum, nextMedia, requests>>

\* the moved photo made the cover of the target album whatever cover it had
saveTargetAlbum_Overwrite(albums1, id, targetAlbumId) ==
  IF media[id].type = "photo"
  THEN [albums1 EXCEPT ![targetAlbumId].coverImageId = id]
  ELSE albums1

\* the albums collection after targetAlbum.save(): targetAlbum was read before the
\* source album was written, and save() writes only the paths the handler modified
saveTargetAlbum(albums1, id, targetAlbumId) ==
  IF media[id].type = "photo" /\ albums[targetAlbumId].coverImageId = None
  THEN [albums1 EXCEPT ![targetAlbumId].coverImageId = id]
  ELSE albums1

\* every MediaItem of the source album moved instead of the one
setAlbumId_WholeAlbum(id, targetAlbumId) ==
  [m \in DOMAIN media |->
     IF media[m].albumId = media[id].albumId
     THEN [media[m] EXCEPT !.albumId = targetAlbumId] ELSE media[m]]

\* the mediaitems collection after mediaItem.albumId = targetAlbumId; mediaItem.save()
setAlbumId(id, targetAlbumId) == [media EXCEPT ![id].albumId = targetAlbumId]

\* the target album looked up only after the source album's cover was replaced
moveMedia_TargetCheckedLate(id, targetAlbumId) ==
  /\ IF id \notin DOMAIN media
     THEN /\ resp' = Reply("moveMedia", id, 404, "notFound")
          /\ UNCHANGED <<albums, media>>
     ELSE IF targetAlbumId \notin DOMAIN albums
     THEN /\ \E photo \in anotherPhoto(media[id].albumId, id) :
               albums' = replaceCover(media[id].albumId, id, photo)
          /\ resp' = Reply("moveMedia", id, 404, "targetNotFound")
          /\ UNCHANGED media
     ELSE \E photo \in anotherPhoto(media[id].albumId, id) :
          /\ albums' = saveTargetAlbum(replaceCover(media[id].albumId, id, photo),
                                       id, targetAlbumId)
          /\ media' = setAlbumId(id, targetAlbumId)
          /\ resp' = [Reply("moveMedia", id, 200,
                            IF isCover(media[id].albumId, id) THEN "coverReplaced" ELSE "moved")
                      EXCEPT !.ref = targetAlbumId]
  /\ UNCHANGED <<trips, nextTrip, nextAlbum, nextMedia, requests>>

\* PUT /api/media/:id/move/:targetAlbumId
moveMedia(id, targetAlbumId) ==
  /\ IF id \notin DOMAIN media
     THEN /\ resp' = Reply("moveMedia", id, 404, "notFound")
          /\ UNCHANGED <<albums, media>>
     ELSE IF targetAlbumId \notin DOMAIN albums
     THEN /\ resp' = Reply("moveMedia", id, 404, "targetNotFound")
          /\ UNCHANGED <<albums, media>>
     ELSE \E photo \in anotherPhoto(media[id].albumId, id) :
          /\ albums' = saveTargetAlbum(replaceCover(media[id].albumId, id, photo),
                                       id, targetAlbumId)
          /\ media' = setAlbumId(id, targetAlbumId)
          /\ resp' = [Reply("moveMedia", id, 200,
                            IF isCover(media[id].albumId, id) THEN "coverReplaced" ELSE "moved")
                      EXCEPT !.ref = targetAlbumId]
  /\ UNCHANGED <<trips, nextTrip, nextAlbum, nextMedia, requests>>

\* ------------------------------------------------------------------------
\* routes/albumRoutes.js: listings

\* the query without its type: 'photo' condition
findOnePhoto_AnyType(albumId) ==
  LET items == {p \in DOMAIN media : media[p].albumId = albumId}
  IN IF items = {} THEN {None} ELSE items

\* MediaItem.findOne({ albumId, type: 'photo' }): the documents it can return
findOnePhoto(albumId) ==
  LET photos == {p \in DOMAIN media : media[p].albumId = albumId /\ media[p].type = "photo"}
  IN IF photos = {} THEN {None} ELSE photos

\* coverImage of a listed album: MediaItem.findById(album.coverImageId) when it
\* finds a document, the first photo of the album otherwise
coverImage(id) ==
  IF albums[id].coverImageId # None /\ albums[id].coverImageId \in DOMAIN media
  THEN {albums[id].coverImageId}
  ELSE findOnePhoto(id)

\* the bodies a listing of the albums in ids can return: _id -> coverImage
albumsWithCounts(ids) ==
  {covers \in [ids -> MediaIds \cup {None}] : \A a \in ids : covers[a] \in coverImage(a)}

\* GET /api/albums/trip/:tripId
getTripAlbums(tripId) ==
  /\ \E covers \in albumsWithCounts({a \in DOMAIN albums : albums[a].tripId = tripId}) :
       resp' = [Reply("getTripAlbums", tripId, 200, "listed") EXCEPT !.ref = covers]
  /\ UNCHANGED <<trips, albums, media, nextTrip, nextAlbum, nextMedia, requests>>

\* GET /api/albums/trip/:tripId/:itemType/:itemId
getItemAlbums(tripId, itemType, itemId) ==
  /\ IF itemType \notin ItemTypes
     THEN resp' = Reply("getItemAlbums", tripId, 400, "invalidType")
     ELSE \E covers \in albumsWithCounts(albumsForItem(tripId, itemType, itemId)) :
            resp' = [Reply("getItemAlbums", tripId, 200, "listed") EXCEPT !.ref = covers]
  /\ UNCHANGED <<trips, albums, media, nextTrip, nextAlbum, nextMedia, requests>>

\* ------------------------------------------------------------------------
\* Requests clients send

Names    == {"n"}
Contents == {"c"}

\* relatedItem values in a createAlbum body
RelInputs == {NoRel, Rel("trip", None)} \cup {Rel(t, i) : t \in ItemTypes, i \in ItemIds}

\* Trip identifiers the store has issued so far (clients learn them from responses)
IssuedTrips == {t \in TripIds : t < nextTrip}

\* an identifier that is well-formed but was never issued for a Trip
UnknownTrip == MaxTrips + 1

\* createAlbum bodies that fail validation: <<name, tripId, relatedItem>>
BadAlbumInputs ==
  {<<"", UnknownTrip, NoRel>>, <<"n", None, NoRel>>, <<"n", UnknownTrip, Rel("other", 1)>>}
    \cup {<<"n", UnknownTrip, Rel(t, None)>> : t \in ItemTypes}

\* an identifier that is well-formed but was never issued for an Album
UnknownAlbum == MaxAlbums + 1

\* createMedia bodies that fail validation: <<type, content>>
BadMediaInputs == {<<"", "c">>, <<"photo", "">>, <<"video", "c">>}

\* the day of every segment and stay while the album requests are explored
SomeDay == CHOOSE d \in Dates : TRUE

\* segments / stays arrays without defaultAlbumId
PlainItems(itemType) == ItemPayloads(itemType, {None}, {SomeDay})
\* bound on the MediaItems added while the default-album requests are explored
MaxAlbumMedia == 1

\* --- trips, albums of every relation, media only added
AlbumRequests ==
  \/ \E name \in Names, tripId \in IssuedTrips, relatedItem \in RelInputs,
        isDefault \in BOOLEAN :
       createAlbum(name, tripId, relatedItem, isDefault)
  \/ \E b \in BadAlbumInputs : createAlbum(b[1], b[2], b[3], TRUE)
  \/ \E tripId \in TripIds, itemType \in ItemTypes \cup {"trip"}, itemId \in ItemIds :
       ensureDefaultAlbum(tripId, itemType, itemId)
  \/ \E id \in AlbumIds : deleteAlbum(id)
  \/ \E albumId \in AlbumIds, type \in MediaTypes :
       nextMedia <= MaxAlbumMedia /\ createMedia(albumId, type, "c")

\* Trips created without default-album references and never changed afterwards
NextAlbum ==
  \/ \E segments \in PlainItems("segment"), stays \in PlainItems("stay") :
       createTrip(segments, stays)
  \/ AlbumRequests

SpecAlbum == Init /\ [][NextAlbum]_vars

\* segments / stays arrays a client sends back in an update: any set of items,
\* each without defaultAlbumId or with the one the stored item has
EchoItems(itemType, stored) ==
  {p \in ItemPayloads(itemType, AlbumIds \cup {None}, {SomeDay}) :
     \A i \in DOMAIN p :
       \/ p[i].defaultAlbumId = None
       \/ i \in DOMAIN stored /\ p[i].defaultAlbumId = stored[i].defaultAlbumId}

\* Every trip and album request
Next ==
  \/ \E segments \in PlainItems("segment") \cup {NotSupplied}, stays \in PlainItems("stay") :
       createTrip(segments, stays)
  \/ \E id \in DOMAIN trips :
       \E segments \in EchoItems("segment", trips[id].segments) \cup {NotSupplied},
          stays \in EchoItems("stay", trips[id].stays) \cup {NotSupplied} :
         updateTrip(id, segments, stays)
  \/ \E id \in TripIds \ DOMAIN trips : updateTrip(id, NotSupplied, NotSupplied)
  \/ \E id \in TripIds : deleteTrip(id)
  \/ AlbumRequests

Spec == Init /\ [][Next]_vars

\* bound on the Albums created while the media requests are explored
MaxMediaAlbums == 2

\* --- trip-level albums and every media request
NextMedia ==
  \/ \E name \in Names :
       nextAlbum <= MaxMediaAlbums /\ createAlbum(name, UnknownTrip, NoRel, FALSE)
  \/ \E id \in AlbumIds, name \in Names \cup {""}, coverImageId \in MediaIds \cup {None} :
       updateAlbum(id, name, Undefined, coverImageId)
  \/ \E id \in AlbumIds : deleteAlbum(id)
  \/ \E albumId \in AlbumIds, type \in MediaTypes, content \in Contents :
       createMedia(albumId, type, content)
  \/ \E b \in BadMediaInputs : createMedia(UnknownAlbum, b[1], b[2])
  \/ \E id \in MediaIds : updateMedia(id)
  \/ \E id \in MediaIds : deleteMedia(id)
  \/ \E id \in MediaIds, targetAlbumId \in AlbumIds : moveMedia(id, targetAlbumId)

SpecMedia == Init /\ [][NextMedia]_vars

\* segments / stays arrays with every choice of dates, absent ones included
DatedItems(itemType) == ItemPayloads(itemType, {None}, Dates \cup {None})

\* --- the trip requests with segments and stays of every date
NextDates ==
  \/ \E segments \in DatedItems("segment") \cup {NotSupplied}, stays \in DatedItems("stay") :
       createTrip(segments, stays)
  \/ \E id \in TripIds :
       \E segments \in DatedItems("segment") \cup {NotSupplied},
          stays \in DatedItems("stay") \cup {NotSupplied} :
         updateTrip(id, segments, stays)
  \/ \E id \in TripIds : deleteTrip(id)

SpecDates == Init /\ [][NextDates]_vars

\* --- the media requests on trip-level and segment albums, and the listings
NextList ==
  \/ NextMedia
  \/ \E name \in Names, itemId \in ItemIds :
       /\ nextAlbum <= MaxMediaAlbums
       /\ createAlbum(name, UnknownTrip, Rel("segment", itemId), FALSE)
  \/ getTripAlbums(UnknownTrip)
  \/ \E itemType \in ItemTypes \cup {"trip"}, itemId \in ItemIds :
       getItemAlbums(UnknownTrip, itemType, itemId)

SpecList == Init /\ [][NextList]_vars

\* names and descriptions a client sends in an update
NewNames == {"", "renamed"}
NewDescriptions == {Undefined, "", "described"}

\* --- trip-level albums with media, updated with every choice of fields
NextUpdate ==
  \/ \E name \in Names :
       nextAlbum <= MaxMediaAlbums /\ createAlbum(name, UnknownTrip, NoRel, FALSE)
  \/ \E albumId \in AlbumIds, type \in MediaTypes, content \in Contents :
       createMedia(albumId, type, content)
  \/ \E id \in AlbumIds, name \in NewNames, description \in NewDescriptions,
        coverImageId \in MediaIds \cup {None} :
       updateAlbum(id, name, description, coverImageId)

SpecUpdate == Init /\ [][NextUpdate]_vars

\* --- the requests on the albums of segments, each of their writes failing or not
NextRejected ==
  \/ \E segments \in PlainItems("segment") : createTrip(segments, <<>>)
  \/ \E name \in Names, tripId \in IssuedTrips, itemId \in ItemIds, isDefault \in BOOLEAN :
       createAlbum(name, tripId, Rel("segment", itemId), isDefault)
  \/ \E tripId \in TripIds, itemId \in ItemIds : ensureDefaultAlbum(tripId, "segment", itemId)
  \/ \E id \in AlbumIds : deleteAlbum(id)
  \/ \E albumId \in AlbumIds, type \in MediaTypes :
       nextMedia <= MaxAlbumMedia /\ createMedia(albumId, type, "c")
  \/ \E tripId \in TripIds, itemId \in ItemIds, rejected \in EnsureWrites :
       ensureDefaultAlbumRejected(tripId, "segment", itemId, rejected)
  \/ \E id \in AlbumIds, rejected \in DeleteWrites : deleteAlbumRejected(id, rejected)

SpecRejected == Init /\ [][NextRejected]_vars

\* ------------------------------------------------------------------------
\* Properties

\* albums a and b are attached to the same (tripId, itemType, itemId)
SameItem(a, b) ==
  /\ albums[a].tripId = albums[b].tripId
  /\ albums[a].relatedItem = albums[b].relatedItem

\* album a is attached to a segment or a stay
ItemAlbum(a) == albums[a].relatedItem.type \in ItemTypes

\* the segment / stay album a is attached to exists in the Trip collection ts
ItemIn(ts, a) ==
  /\ albums[a].tripId \in DOMAIN ts
  /\ albums[a].relatedItem.itemId
       \in DOMAIN ItemsOf(ts[albums[a].tripId], albums[a].relatedItem.type)

ItemExists(a) == ItemIn(trips, a)

\* defaultAlbumId of the segment / stay album a is attached to
PointerOf(ts, a) ==
  ItemsOf(ts[albums[a].tripId], albums[a].relatedItem.type)[albums[a].relatedItem.itemId]

\* the step is the handling of request op on document id
Handled(op, id) == resp'.op = op /\ resp'.id = id

\* C1: for each (tripId, segment|stay, itemId) naming a stored segment / stay,
\* at most one Album has isDefault = true.
C1_AtMostOneDefault ==
  \A a \in DOMAIN albums, b \in DOMAIN albums :
    (/\ ItemAlbum(a) /\ ItemExists(a)
     /\ SameItem(a, b)
     /\ albums[a].isDefault /\ albums[b].isDefault) => a = b

\* C2: whenever a default Album attached to a segment / stay exists, that
\* segment / stay (when the Trip holds it) has defaultAlbumId equal to the
\* Album's identifier.
C2_DefaultPointerSynced ==
  \A a \in DOMAIN albums :
    (ItemAlbum(a) /\ albums[a].isDefault /\ ItemExists(a)) => PointerOf(trips, a) = a

\* C3 as stated: deleteAlbum on the only Album of a stored segment / stay,
\* default or not, answers 400 and changes no Album, MediaItem or Trip.
C3_SoleAlbumRefused ==
  [][\A id \in DOMAIN albums :
       (/\ ItemAlbum(id) /\ ItemExists(id)
        /\ \A b \in DOMAIN albums : SameItem(id, b) => b = id
        /\ Handled("deleteAlbum", id))
       => (resp'.status = 400 /\ UNCHANGED db)]_vars

\* C3 amended: deleteAlbum on an Album flagged isDefault that is the only Album
\* of its segment / stay answers 400 and changes no Album, MediaItem or Trip.
C3_SoleDefaultAlbumRefused ==
  [][\A id \in DOMAIN albums :
       (/\ ItemAlbum(id)
        /\ albums[id].isDefault
        /\ \A b \in DOMAIN albums : SameItem(id, b) => b = id
        /\ Handled("deleteAlbum", id))
       => (resp'.status = 400 /\ UNCHANGED db)]_vars

\* a sole default album that owns a MediaItem and is its item's defaultAlbumId
\* has just been refused deletion
C3_Witness ==
  /\ resp.op = "deleteAlbum" /\ resp.status = 400
  /\ resp.id \in DOMAIN albums
  /\ ItemAlbum(resp.id) /\ albums[resp.id].isDefault
  /\ \A b \in DOMAIN albums : SameItem(resp.id, b) => b = resp.id
  /\ ItemExists(resp.id) /\ PointerOf(trips, resp.id) = resp.id
  /\ \E m \in DOMAIN media : media[m].albumId = resp.id

\* C4: deleteAlbum on a default Album of a segment / stay that has another Album
\* succeeds, removes the Album, leaves another Album of the item flagged default
\* and the item's defaultAlbumId (when the Trip holds the item) equal to it.
C4_DefaultPromoted ==
  [][\A id \in DOMAIN albums :
       (/\ ItemAlbum(id)
        /\ albums[id].isDefault
        /\ \E b \in DOMAIN albums : b # id /\ SameItem(id, b)
        /\ Handled("deleteAlbum", id))
       => (/\ resp'.status = 200
           /\ id \notin DOMAIN albums'
           /\ \E b \in DOMAIN albums' :
                /\ b # id /\ SameItem(id, b)
                /\ albums'[b].isDefault
                /\ (ItemIn(trips', id) => PointerOf(trips', id) = b))]_vars

\* C5: every defaultAlbumId that is set on a segment / stay identifies a stored
\* Album.
C5_NoDanglingDefault ==
  \A t \in DOMAIN trips, itemType \in ItemTypes :
    \A i \in DOMAIN ItemsOf(trips[t], itemType) :
      ItemsOf(trips[t], itemType)[i] # None =>
        ItemsOf(trips[t], itemType)[i] \in DOMAIN albums

\* a default album has just been deleted and its item points at the promoted one
C5_Witness ==
  /\ resp.op = "deleteAlbum" /\ resp.path = "reassigned"
  /\ \E a \in DOMAIN albums :
       ItemAlbum(a) /\ ItemExists(a) /\ PointerOf(trips, a) = a

\* C6: a successful deleteAlbum removes the Album and every MediaItem whose
\* albumId is the Album's identifier, and changes no other MediaItem.
C6_CascadeDelete ==
  [][\A id \in DOMAIN albums :
       (Handled("deleteAlbum", id) /\ resp'.status = 200)
       => (/\ id \notin DOMAIN albums'
           /\ \A m \in DOMAIN media' : media'[m].albumId # id
           /\ \A m \in DOMAIN media :
                media[m].albumId # id => (m \in DOMAIN media' /\ media'[m] = media[m]))]_vars

\* an album has just been deleted while another album keeps its MediaItem
C6_Witness ==
  /\ resp.op = "deleteAlbum" /\ resp.status = 200
  /\ media # <<>>

\* C7: every MediaItem's albumId identifies a stored Album.
C7_MediaOwned ==
  \A m \in DOMAIN media : media[m].albumId \in DOMAIN albums

\* an album has been deleted and a MediaItem moved, and MediaItems remain
C7_Witness ==
  /\ resp.op = "moveMedia" /\ resp.status = 200
  /\ \E a \in AlbumIds : a < nextAlbum /\ a \notin DOMAIN albums
  /\ media # <<>>

\* C8: an Album's coverImageId, when set, identifies a stored MediaItem of that
\* Album whose type is photo.
C8_CoverValid ==
  \A a \in DOMAIN albums :
    albums[a].coverImageId # None =>
      /\ albums[a].coverImageId \in DOMAIN media
      /\ media[albums[a].coverImageId].albumId = a
      /\ media[albums[a].coverImageId].type = "photo"

\* the cover of an album has just been deleted and another photo took its place
C8_Witness ==
  /\ resp.op = "deleteMedia" /\ resp.path = "coverReplaced"
  /\ \E a \in DOMAIN albums : albums[a].coverImageId # None

\* photos of album a other than MediaItem id
OtherPhotos(a, id) ==
  {p \in DOMAIN media \ {id} : media[p].albumId = a /\ media[p].type = "photo"}

\* C9: deleteMedia on an Album's cover leaves coverImageId equal to another
\* photo of the Album when there is one and unset otherwise; deleteMedia on
\* any other MediaItem leaves every coverImageId unchanged.
C9_DeleteReresolvesCover ==
  [][\A id \in DOMAIN media :
       (Handled("deleteMedia", id) /\ resp'.status = 200)
       => \A a \in DOMAIN albums :
            /\ a \in DOMAIN albums'
            /\ IF a = media[id].albumId /\ albums[a].coverImageId = id
               THEN IF OtherPhotos(a, id) = {}
                    THEN albums'[a].coverImageId = None
                    ELSE albums'[a].coverImageId \in OtherPhotos(a, id)
               ELSE albums'[a].coverImageId = albums[a].coverImageId]_vars

\* the cover has just been deleted and the album's other photo is the cover
C9_Witness ==
  /\ resp.op = "deleteMedia" /\ resp.path = "coverReplaced"
  /\ \E a \in DOMAIN albums :
       /\ albums[a].coverImageId \in DOMAIN media
       /\ media[albums[a].coverImageId].albumId = a

\* C10: after a successful moveMedia(id, targetAlbumId) the MediaItem's albumId
\* is targetAlbumId and the albumId, type and content of every other MediaItem
\* are unchanged.
C10_MoveFrame ==
  [][\A id \in DOMAIN media :
       (Handled("moveMedia", id) /\ resp'.status = 200)
       => (/\ DOMAIN media' = DOMAIN media
           /\ media'[id].albumId = resp'.ref
           /\ \A m \in DOMAIN media \ {id} : media'[m] = media[m])]_vars

\* a MediaItem has just been moved to another album while another MediaItem stays
C10_Witness ==
  /\ resp.op = "moveMedia" /\ resp.status = 200
  /\ resp.id \in DOMAIN media /\ media[resp.id].albumId = resp.ref
  /\ \E m \in DOMAIN media : m # resp.id /\ media[m].albumId # resp.ref

\* C11: after a successful moveMedia of MediaItem id from its Album S to a
\* different Album T: when id was the cover of S, the cover of S becomes another
\* photo staying in S, or unset when there is none; when T had no cover and id
\* is a photo, id becomes the cover of T; when T had a cover, it keeps it.
C11_MoveCovers ==
  [][\A id \in DOMAIN media :
       (/\ Handled("moveMedia", id) /\ resp'.status = 200
        /\ resp'.ref # media[id].albumId)
       => LET S == media[id].albumId
              T == resp'.ref
          IN /\ (S \in DOMAIN albums /\ albums[S].coverImageId = id)
                  => /\ albums'[S].coverImageId # id
                     /\ IF OtherPhotos(S, id) = {}
                        THEN albums'[S].coverImageId = None
                        ELSE albums'[S].coverImageId \in OtherPhotos(S, id)
             /\ (albums[T].coverImageId = None /\ media[id].type = "photo")
                  => albums'[T].coverImageId = id
             /\ albums[T].coverImageId # None
                  => albums'[T].coverImageId = albums[T].coverImageId]_vars

\* the cover of one album has just been moved to an album without a cover: the
\* source album's other photo took its place and the moved photo covers the target
C11_Witness ==
  /\ resp.op = "moveMedia" /\ resp.path = "coverReplaced"
  /\ resp.id \in DOMAIN media /\ media[resp.id].albumId = resp.ref
  /\ albums[resp.ref].coverImageId = resp.id
  /\ \E S \in DOMAIN albums :
       /\ S # resp.ref
       /\ albums[S].coverImageId \in DOMAIN media
       /\ albums[S].coverImageId # resp.id

\* default Albums stored for (tripId, itemType, itemId)
DefaultsOf(tripId, itemType, itemId) ==
  {a \in DOMAIN albums : /\ albums[a].tripId = tripId
                         /\ albums[a].relatedItem = Rel(itemType, itemId)
                         /\ albums[a].isDefault}

\* the segment / stay (tripId, itemType, itemId) is stored
ItemStored(tripId, itemType, itemId) ==
  /\ tripId \in DOMAIN trips
  /\ itemId \in DOMAIN ItemsOf(trips[tripId], itemType)

\* C12: ensureDefaultAlbum(tripId, itemType, itemId), when a default Album is
\* stored for (tripId, itemType, itemId), answers 400 with the identifier of
\* such an Album and changes no Album, MediaItem or Trip.
C12_ExistingDefaultConflict ==
  [][\A tripId \in TripIds, itemType \in ItemTypes, itemId \in ItemIds :
       (/\ ensureDefaultAlbum(tripId, itemType, itemId)
        /\ DefaultsOf(tripId, itemType, itemId) # {})
       => (/\ resp'.status = 400
           /\ resp'.id \in DefaultsOf(tripId, itemType, itemId)
           /\ UNCHANGED db)]_vars

\* C13: ensureDefaultAlbum(tripId, itemType, itemId), when the Trip holds the
\* item and no default Album is stored for it, adds exactly one Album, with
\* that tripId, relatedItem = (itemType, itemId) and isDefault = true, and the
\* item's defaultAlbumId is the new Album's identifier afterwards.
C13_DefaultAlbumCreated ==
  [][\A tripId \in TripIds, itemType \in ItemTypes, itemId \in ItemIds :
       (/\ ensureDefaultAlbum(tripId, itemType, itemId)
        /\ ItemStored(tripId, itemType, itemId)
        /\ DefaultsOf(tripId, itemType, itemId) = {})
       => \E a \in DOMAIN albums' \ DOMAIN albums :
            /\ DOMAIN albums' = DOMAIN albums \cup {a}
            /\ \A b \in DOMAIN albums : albums'[b] = albums[b]
            /\ albums'[a].tripId = tripId
            /\ albums'[a].relatedItem = Rel(itemType, itemId)
            /\ albums'[a].isDefault
            /\ resp'.status = 201 /\ resp'.id = a
            /\ ItemsOf(trips'[tripId], itemType)[itemId] = a]_vars

\* a default album has just been created for an item that already had an album
C13_Witness ==
  /\ resp.op = "ensureDefaultAlbum" /\ resp.status = 201
  /\ resp.id \in DOMAIN albums /\ albums[resp.id].isDefault
  /\ ItemExists(resp.id) /\ PointerOf(trips, resp.id) = resp.id
  /\ \E b \in DOMAIN albums : b # resp.id /\ SameItem(resp.id, b)

\* C14: ensureDefaultAlbum(tripId, itemType, itemId) answers 404 when the Trip
\* is not stored or holds no segment / stay itemId, and then adds no Album and
\* changes no Trip.
C14_MissingItemNotFound ==
  [][\A tripId \in TripIds, itemType \in ItemTypes, itemId \in ItemIds :
       (/\ ensureDefaultAlbum(tripId, itemType, itemId)
        /\ ~ItemStored(tripId, itemType, itemId))
       => (/\ resp'.status = 404
           /\ albums' = albums
           /\ trips' = trips)]_vars

\* a default album was asked for a stay the stored Trip does not hold, while the
\* Trip holds a segment of that identifier
C14_Witness ==
  /\ resp.op = "ensureDefaultAlbum" /\ resp.path = "itemNotFound"
  /\ \E t \in DOMAIN trips : trips[t].segments # <<>> /\ trips[t].stays = <<>>

\* every date a stored Trip carries in its segments and stays
DatesOf(t) ==
  {trips[t].segments[i].date : i \in DOMAIN trips[t].segments}
    \cup {trips[t].stays[i].dateStart : i \in DOMAIN trips[t].stays}
    \cup {trips[t].stays[i].dateEnd : i \in DOMAIN trips[t].stays}

\* the stored Trip has no segments and no stays
NoItems(t) == trips[t].segments = <<>> /\ trips[t].stays = <<>>

\* C15: every stored Trip (each is as its last save left it) whose segments and
\* stays are not both empty has startDate equal to the least and endDate equal
\* to the greatest of its segment dates, stay start dates and stay end dates,
\* so that startDate <= endDate.
C15_DatesAreMinMax ==
  \A t \in DOMAIN trips :
    ~NoItems(t) =>
      /\ trips[t].startDate \in DatesOf(t)
      /\ trips[t].endDate \in DatesOf(t)
      /\ \A d \in DatesOf(t) : trips[t].startDate <= d /\ d <= trips[t].endDate
      /\ trips[t].startDate <= trips[t].endDate

\* a Trip updated to hold a stay that ends before it starts and a segment in
\* between: startDate is the stay's end, endDate the stay's start
C15_Witness ==
  /\ resp.op = "updateTrip" /\ resp.status = 200
  /\ resp.id \in DOMAIN trips
  /\ \E i \in DOMAIN trips[resp.id].stays, j \in DOMAIN trips[resp.id].segments :
       /\ trips[resp.id].stays[i].dateEnd < trips[resp.id].segments[j].date
       /\ trips[resp.id].segments[j].date < trips[resp.id].stays[i].dateStart
       /\ trips[resp.id].startDate = trips[resp.id].stays[i].dateEnd
       /\ trips[resp.id].endDate = trips[resp.id].stays[i].dateStart

\* C16: every stored Trip (each is as its last save left it) that has no
\* segments and no stays has startDate, endDate and dateRange unset.
C16_EmptyTripUndated ==
  \A t \in DOMAIN trips :
    NoItems(t) =>
      /\ trips[t].startDate = None
      /\ trips[t].endDate = None
      /\ trips[t].dateRange = NoRange

\* C17: the tripId of every stored Album identifies a stored Trip.
C17_AlbumTripExists ==
  \A a \in DOMAIN albums : albums[a].tripId \in DOMAIN trips

\* C18: a successful createMedia sets the coverImageId of its Album to the new
\* MediaItem exactly when the new MediaItem is a photo and the Album had no
\* coverImageId; in every other case, and for every other Album, coverImageId
\* is unchanged.
C18_FirstPhotoBecomesCover ==
  [][\A id \in MediaIds \ DOMAIN media :
       (Handled("createMedia", id) /\ resp'.status = 201)
       => /\ id \in DOMAIN media'
          /\ media'[id].albumId \in DOMAIN albums
          /\ \A a \in DOMAIN albums :
               /\ a \in DOMAIN albums'
               /\ albums'[a].coverImageId =
                    IF /\ a = media'[id].albumId
                       /\ media'[id].type = "photo"
                       /\ albums[a].coverImageId = None
                    THEN id
                    ELSE albums[a].coverImageId]_vars

\* a photo has just been added to an album whose only item was a note, and is
\* its cover
C18_Witness ==
  /\ resp.op = "createMedia" /\ resp.status = 201
  /\ resp.id \in DOMAIN media /\ media[resp.id].type = "photo"
  /\ albums[media[resp.id].albumId].coverImageId = resp.id
  /\ \E n \in DOMAIN media :
       /\ n # resp.id
       /\ media[n].albumId = media[resp.id].albumId
       /\ media[n].type = "note"

\* photos owned by album a
PhotosOf(a) == {p \in DOMAIN media : media[p].albumId = a /\ media[p].type = "photo"}

\* c is the cover image a listing is to report for album a
CoverToReport(a, c) ==
  IF /\ albums[a].coverImageId \in DOMAIN media
     /\ media[albums[a].coverImageId].albumId = a
     /\ media[albums[a].coverImageId].type = "photo"
  THEN c = albums[a].coverImageId
  ELSE IF PhotosOf(a) # {} THEN c \in PhotosOf(a) ELSE c = None

\* C19: the cover image an album listing reports for an Album is the MediaItem
\* named by coverImageId when that is a stored photo of the Album, otherwise a
\* photo of the Album when it has one, otherwise none; it is never a note and
\* never a MediaItem of another Album.
C19_ListedCover ==
  [][(resp'.op \in {"getTripAlbums", "getItemAlbums"} /\ resp'.status = 200)
       => \A a \in DOMAIN resp'.ref :
            /\ a \in DOMAIN albums
            /\ CoverToReport(a, resp'.ref[a])
            /\ resp'.ref[a] # None
                 => /\ media[resp'.ref[a]].type = "photo"
                    /\ media[resp'.ref[a]].albumId = a]_vars

\* a listing has just reported, for an album that holds a note and has no
\* coverImageId, the album's photo
C19_Witness ==
  /\ resp.op \in {"getTripAlbums", "getItemAlbums"} /\ resp.status = 200
  /\ \E a \in DOMAIN resp.ref :
       /\ a \in DOMAIN albums /\ albums[a].coverImageId = None
       /\ resp.ref[a] \in PhotosOf(a)
       /\ \E n \in DOMAIN media : media[n].albumId = a /\ media[n].type = "note"

\* C20: every stored Album has a relatedItem type among trip, segment and stay
\* and an itemId whenever the type is not trip; and createAlbum with
\* relatedItem.type segment or stay and no itemId answers 400 and stores no
\* Album.
C20_RelatedItemWellFormed ==
  /\ [](\A a \in DOMAIN albums :
          /\ albums[a].relatedItem.type \in {"trip", "segment", "stay"}
          /\ albums[a].relatedItem.type # "trip" => albums[a].relatedItem.itemId # None)
  /\ [][\A name \in Names, tripId \in TripIds \cup {UnknownTrip},
           itemType \in ItemTypes, isDefault \in BOOLEAN :
          createAlbum(name, tripId, Rel(itemType, None), isDefault)
          => (resp'.status = 400 /\ albums' = albums)]_vars

\* createAlbum for a segment / stay without itemId has just been refused while
\* a segment / stay album with its itemId is stored
C20_Witness ==
  /\ resp.op = "createAlbum" /\ resp.status = 400 /\ resp.path = "itemId required"
  /\ \E a \in DOMAIN albums : ItemAlbum(a) /\ albums[a].relatedItem.itemId # None

\* C21: updateAlbum on a stored Album with a coverImageId that is not a stored
\* photo of that Album answers 400 and leaves the stored Album as it was, name
\* and description included, whatever name and description the request carries.
C21_InvalidCoverChangesNothing ==
  [][\A id \in DOMAIN albums, name \in NewNames, description \in NewDescriptions,
        coverImageId \in MediaIds :
       (/\ updateAlbum(id, name, description, coverImageId)
        /\ ~(/\ coverImageId \in DOMAIN media
             /\ media[coverImageId].albumId = id
             /\ media[coverImageId].type = "photo"))
       => (resp'.status = 400 /\ albums' = albums)]_vars

\* an update has just been refused for its cover while the album still has the
\* name it was created with, and another album has been renamed and described
C21_Witness ==
  /\ resp.op = "updateAlbum" /\ resp.status = 400
  /\ resp.id \in DOMAIN albums
  /\ albums[resp.id].name \in Names /\ albums[resp.id].description = Undefined
  /\ \E b \in DOMAIN albums : albums[b].name = "renamed" /\ albums[b].description = "described"
  /\ \E m \in DOMAIN media : media[m].albumId # resp.id /\ media[m].type = "photo"

\* C27: moveMedia(id, targetAlbumId) with an id that names no stored MediaItem
\* or a targetAlbumId that names no stored Album answers 404 and writes
\* nothing: every MediaItem (its albumId included) and every Album (its
\* coverImageId included) are unchanged.
C27_MoveNotFoundWritesNothing ==
  [][\A id \in MediaIds, targetAlbumId \in AlbumIds :
       (/\ moveMedia(id, targetAlbumId)
        /\ (id \notin DOMAIN media \/ targetAlbumId \notin DOMAIN albums))
       => (resp'.status = 404 /\ media' = media /\ albums' = albums)]_vars

\* the move of an album's cover to an album that is not stored has just been
\* refused, and the photo is still the cover of its album
C27_Witness ==
  /\ resp.op = "moveMedia" /\ resp.path = "targetNotFound"
  /\ resp.id \in DOMAIN media
  /\ media[resp.id].albumId \in DOMAIN albums
  /\ albums[media[resp.id].albumId].coverImageId = resp.id

\* C28: every stored Album that holds a photo has a coverImageId set.
C28_PhotoAlbumHasCover ==
  \A a \in DOMAIN albums :
    (\E p \in DOMAIN media : media[p].albumId = a /\ media[p].type = "photo")
      => albums[a].coverImageId # None

\* C29: every stored Album attached to a segment (resp. stay) has an itemId that
\* names a segment (resp. stay) stored in the Trip its tripId names.
C29_AlbumItemExists ==
  \A a \in DOMAIN albums : ItemAlbum(a) => ItemExists(a)

\* C30: deleteAlbum on a stored Album that is not flagged isDefault, or that is
\* trip-level, succeeds (it is never refused as the sole album) and changes
\* nothing but the Album and its MediaItems: every Trip, every other Album and
\* every MediaItem of another Album are unchanged.
C30_PlainDeleteFrame ==
  [][\A id \in DOMAIN albums :
       (/\ Handled("deleteAlbum", id)
        /\ (~albums[id].isDefault \/ albums[id].relatedItem.type = "trip"))
       => (/\ resp'.status = 200
           /\ trips' = trips
           /\ DOMAIN albums' = DOMAIN albums \ {id}
           /\ \A b \in DOMAIN albums' : albums'[b] = albums[b]
           /\ DOMAIN media' = {m \in DOMAIN media : media[m].albumId # id}
           /\ \A m \in DOMAIN media' : media'[m] = media[m])]_vars

\* the only album of a stored segment, not flagged default, has just been
\* deleted while a default album of another item stays default
C30_Witness ==
  /\ resp.op = "deleteAlbum" /\ resp.status = 200
  /\ resp.id \notin DOMAIN albums
  /\ \E t \in DOMAIN trips : trips[t].segments # <<>>
  /\ \A b \in DOMAIN albums : ~(albums[b].relatedItem.type = "segment")
  /\ \E b \in DOMAIN albums :
       ItemAlbum(b) /\ albums[b].isDefault /\ ItemExists(b) /\ PointerOf(trips, b) = b

\* C22: an ensureDefaultAlbum whose Album write succeeds and whose Trip write
\* is rejected answers 500, leaves the new Album stored with isDefault = true
\* and every other Album as it was, and leaves every Trip, the item's
\* defaultAlbumId included, unchanged.
C22_TripWriteRejected ==
  [][\A tripId \in TripIds, itemType \in ItemTypes, itemId \in ItemIds :
       ensureDefaultAlbumRejected(tripId, itemType, itemId, "trip.save")
       => (/\ resp'.status = 500
           /\ trips' = trips
           /\ \A b \in DOMAIN albums : b \in DOMAIN albums' /\ albums'[b] = albums[b]
           /\ \E a \in DOMAIN albums' \ DOMAIN albums :
                /\ DOMAIN albums' = DOMAIN albums \cup {a}
                /\ albums'[a].tripId = tripId
                /\ albums'[a].relatedItem = Rel(itemType, itemId)
                /\ albums'[a].isDefault)]_vars

\* the Trip write of an ensureDefaultAlbum has just been rejected: a default
\* album of a stored item is stored and the item has no defaultAlbumId
C22_Witness ==
  /\ resp.op = "ensureDefaultAlbum" /\ resp.status = 500 /\ resp.path = "trip.save"
  /\ \E a \in DOMAIN albums :
       /\ ItemAlbum(a) /\ albums[a].isDefault
       /\ albums[a].description = defaultAlbumDescription
       /\ ItemExists(a) /\ PointerOf(trips, a) = None

\* C23 as stated: a deleteAlbum one of whose writes is rejected leaves, for an
\* Album that held MediaItems, a MediaItem whose albumId names the Album while
\* the Album is no longer stored.
C23_RejectedDeleteOrphans ==
  [][\A id \in DOMAIN albums, rejected \in DeleteWrites :
       (/\ deleteAlbumRejected(id, rejected)
        /\ \E m \in DOMAIN media : media[m].albumId = id)
       => (/\ id \notin DOMAIN albums'
           /\ \E m \in DOMAIN media' : media'[m].albumId = id)]_vars

\* C23 amended: a deleteAlbum one of whose writes is rejected answers 500 and
\* leaves the Album stored, and in no state does a MediaItem's albumId name an
\* Album that is not stored.
C23_RejectedDeleteKeepsAlbum ==
  /\ [](\A m \in DOMAIN media : media[m].albumId \in DOMAIN albums)
  /\ [][\A id \in DOMAIN albums, rejected \in DeleteWrites :
          deleteAlbumRejected(id, rejected)
          => (resp'.status = 500 /\ id \in DOMAIN albums')]_vars

\* the removal of an album has just been rejected after its MediaItems were
\* deleted: the album is stored and holds nothing
C23_Witness ==
  /\ resp.op = "deleteAlbum" /\ resp.status = 500 /\ resp.path = "album.remove"
  /\ resp.id \in DOMAIN albums
  /\ nextMedia > 1 /\ media = <<>>

\* ------------------------------------------------------------------------
\* Requests handled one store operation at a time. Every await of a handler
\* is one step; between two steps of a request the steps of the other
\* requests may run. A request keeps what it has read in its own record and
\* its pc names the store operation it runs next.

\* a request arrives and waits for its first store operation
receive(request) ==
  /\ Len(requests) < MaxRequests
  /\ requests' = Append(requests, request)
  /\ UNCHANGED <<trips, albums, media, nextTrip, nextAlbum, nextMedia, resp>>

\* the request moves on to its next store operation
goto(r, pc) == requests' = [requests EXCEPT ![r].pc = pc]

\* res.status(code).json(...) ends the request
respond(r, id, status, path) ==
  /\ requests' = [requests EXCEPT ![r].pc = "done", ![r].status = status]
  /\ resp' = Reply(requests[r].op, id, status, path)

\* outcomes of document.save() / status of the request after it: the save
\* of a document that is no longer stored writes nothing and, depending on
\* the mongoose version, either resolves or rejects into the catch block
saveOutcomes(stored) == IF stored THEN {"saved"} ELSE {"saved", "rejected"}

\* POST /api/albums/default/:tripId/:itemType/:itemId, as it arrives
ensureDefaultAlbumRequest(tripId, itemType, itemId) ==
  [op |-> "ensureDefaultAlbum", tripId |-> tripId, itemType |-> itemType,
   itemId |-> itemId, pc |-> "Trip.findById", status |-> 0, albumId |-> None]

\* POST /api/albums/default/:tripId/:itemType/:itemId, one store operation
ensureDefaultAlbumStep(r) ==
  /\ r \in DOMAIN requests
  /\ requests[r].op = "ensureDefaultAlbum"
  /\ requests[r].pc # "done"
  /\ LET q == requests[r] IN
     CASE q.pc = "Trip.findById" ->
            /\ IF q.itemType \notin ItemTypes
               THEN respond(r, None, 400, "invalidType")
               ELSE IF q.tripId \notin DOMAIN trips
               THEN respond(r, None, 404, "tripNotFound")
               ELSE IF ~subdocId(trips[q.tripId], q.itemType, q.itemId)
               THEN respond(r, None, 404, "itemNotFound")
               ELSE goto(r, "Album.findOne") /\ UNCHANGED resp
            /\ UNCHANGED <<trips, albums, nextAlbum>>
       [] q.pc = "Album.findOne" ->
            /\ IF existingDefaultAlbum(q.tripId, q.itemType, q.itemId) # {}
               THEN \E b \in existingDefaultAlbum(q.tripId, q.itemType, q.itemId) :
                      respond(r, b, 400, "exists")
               ELSE goto(r, "album.save") /\ UNCHANGED resp
            /\ UNCHANGED <<trips, albums, nextAlbum>>
       [] q.pc = "album.save" ->
            /\ nextAlbum <= MaxAlbums
            /\ albums' = Insert(albums, nextAlbum,
                                [Album(defaultAlbumName, q.tripId, Rel(q.itemType, q.itemId), TRUE)
                                   EXCEPT !.description = defaultAlbumDescription])
            /\ nextAlbum' = nextAlbum + 1
            /\ requests' = [requests EXCEPT ![r].pc = "trip.save", ![r].albumId = nextAlbum]
            /\ UNCHANGED <<trips, resp>>
       [] q.pc = "trip.save" ->
            /\ trips' = writeDefaultAlbumId(q.tripId, q.itemType, q.itemId, q.albumId)
            /\ \E outcome \in saveOutcomes(q.tripId \in DOMAIN trips) :
                 IF outcome = "saved"
                 THEN respond(r, q.albumId, 201, "created")
                 ELSE respond(r, q.albumId, 500, "trip.save")
            /\ UNCHANGED <<albums, nextAlbum>>
  /\ UNCHANGED <<media, nextTrip, nextMedia>>

\* --- one Trip, default-album requests handled one store operation at a time
NextEnsureRace ==
  \/ \E segments \in PlainItems("segment"), stays \in PlainItems("stay") :
       createTrip(segments, stays)
  \/ \E tripId \in TripIds, itemType \in ItemTypes, itemId \in ItemIds :
       receive(ensureDefaultAlbumRequest(tripId, itemType, itemId))
  \/ \E r \in 1..MaxRequests : ensureDefaultAlbumStep(r)

SpecEnsureRace == Init /\ [][NextEnsureRace]_vars

\* requests r1 and r2 are two ensureDefaultAlbum requests for the same item
SameEnsureTarget(r1, r2) ==
  /\ r1 # r2
  /\ requests[r1].op = "ensureDefaultAlbum" /\ requests[r2].op = "ensureDefaultAlbum"
  /\ requests[r1].tripId = requests[r2].tripId
  /\ requests[r1].itemType = requests[r2].itemType
  /\ requests[r1].itemId = requests[r2].itemId

\* every request that has arrived has been answered
AllDone == \A r \in DOMAIN requests : requests[r].pc = "done"

\* C24: once two ensureDefaultAlbum requests for the same stored item
\* (tripId, itemType, itemId), interleaved store operation by store operation,
\* have both been answered, at most one of them has answered 201 and at most
\* one default Album is stored for the item.
C24_RaceOneDefault ==
  \A r1, r2 \in DOMAIN requests :
    (/\ SameEnsureTarget(r1, r2)
     /\ AllDone
     /\ ItemStored(requests[r1].tripId, requests[r1].itemType, requests[r1].itemId))
    => /\ ~(requests[r1].status = 201 /\ requests[r2].status = 201)
       /\ Cardinality(DefaultsOf(requests[r1].tripId, requests[r1].itemType,
                                 requests[r1].itemId)) <= 1

\* DELETE /api/albums/:id, as it arrives; album is the document as
\* Album.findById resolves it and first is otherAlbums[0]
deleteAlbumRequest(id) ==
  [op |-> "deleteAlbum", id |-> id, pc |-> "Album.findById", status |-> 0,
   album |-> Album("", None, NoRel, FALSE), first |-> None]

\* DELETE /api/albums/:id, one store operation
deleteAlbumStep(r) ==
  /\ r \in DOMAIN requests
  /\ requests[r].op = "deleteAlbum"
  /\ requests[r].pc # "done"
  /\ LET q == requests[r]
         rel == q.album.relatedItem
     IN
     CASE q.pc = "Album.findById" ->
            /\ IF q.id \notin DOMAIN albums
               THEN respond(r, q.id, 404, "notFound")
               ELSE /\ requests' = [requests EXCEPT
                         ![r].album = albums[q.id],
                         ![r].pc = IF albums[q.id].isDefault /\ albums[q.id].relatedItem.type # "trip"
                                   THEN "Album.find" ELSE "MediaItem.deleteMany"]
                    /\ UNCHANGED resp
            /\ UNCHANGED <<trips, albums, media>>
       [] q.pc = "Album.find" ->
            /\ LET others == albumsForItem(q.album.tripId, rel.type, rel.itemId) \ {q.id} IN
               IF others = {}
               THEN respond(r, q.id, 400, "soleAlbum")
               ELSE /\ \E first \in others :
                         requests' = [requests EXCEPT ![r].first = first, ![r].pc = "Trip.findById"]
                    /\ UNCHANGED resp
            /\ UNCHANGED <<trips, albums, media>>
       [] q.pc = "Trip.findById" ->
            /\ goto(r, IF q.album.tripId \notin DOMAIN trips THEN "MediaItem.deleteMany"
                       ELSE IF subdocId(trips[q.album.tripId], rel.type, rel.itemId)
                       THEN "otherAlbums[0].save" ELSE "trip.save")
            /\ UNCHANGED <<trips, albums, media, resp>>
       [] q.pc = "otherAlbums[0].save" ->
            /\ albums' = IF q.first \in DOMAIN albums
                         THEN [albums EXCEPT ![q.first].isDefault = TRUE] ELSE albums
            /\ \E outcome \in saveOutcomes(q.first \in DOMAIN albums) :
                 IF outcome = "saved"
                 THEN goto(r, "trip.save") /\ UNCHANGED resp
                 ELSE respond(r, q.id, 500, "otherAlbum.save")
            /\ UNCHANGED <<trips, media>>
       [] q.pc = "trip.save" ->
            /\ trips' = writeDefaultAlbumId(q.album.tripId, rel.type, rel.itemId, q.first)
            /\ \E outcome \in saveOutcomes(q.album.tripId \in DOMAIN trips) :
                 IF outcome = "saved"
                 THEN goto(r, "MediaItem.deleteMany") /\ UNCHANGED resp
                 ELSE respond(r, q.id, 500, "trip.save")
            /\ UNCHANGED <<albums, media>>
       [] q.pc = "MediaItem.deleteMany" ->
            /\ media' = deleteManyMedia(q.id)
            /\ goto(r, "album.remove")
            /\ UNCHANGED <<trips, albums, resp>>
       [] q.pc = "album.remove" ->
            /\ albums' = Remove(albums, {q.id})
            /\ respond(r, q.id, 200, "deleted")
            /\ UNCHANGED <<trips, media>>
  /\ UNCHANGED <<nextTrip, nextAlbum, nextMedia>>

\* POST /api/media/album/:albumId, as it arrives; coverImageId is the one of
\* the album as Album.findById resolves it and mediaId is savedMediaItem._id
createMediaRequest(albumId, type, content) ==
  [op |-> "createMedia", albumId |-> albumId, type |-> type, content |-> content,
   pc |-> "Album.findById", status |-> 0, coverImageId |-> None, mediaId |-> None]

\* POST /api/media/album/:albumId, one store operation
createMediaStep(r) ==
  /\ r \in DOMAIN requests
  /\ requests[r].op = "createMedia"
  /\ requests[r].pc # "done"
  /\ LET q == requests[r] IN
     CASE q.pc = "Album.findById" ->
            /\ IF q.type = "" \/ q.content = ""
               THEN respond(r, None, 400, "missingFields")
               ELSE IF q.type \notin MediaTypes
               THEN respond(r, None, 400, "invalidType")
               ELSE IF q.albumId \notin DOMAIN albums
               THEN respond(r, None, 404, "albumNotFound")
               ELSE /\ requests' = [requests EXCEPT
                         ![r].coverImageId = albums[q.albumId].coverImageId,
                         ![r].pc = "mediaItem.save"]
                    /\ UNCHANGED resp
            /\ UNCHANGED <<albums, media, nextMedia>>
       [] q.pc = "mediaItem.save" ->
            /\ nextMedia <= MaxMedia
            /\ media' = Insert(media, nextMedia, MediaItem(q.albumId, q.type, q.content))
            /\ nextMedia' = nextMedia + 1
            /\ requests' = [requests EXCEPT
                 ![r].mediaId = nextMedia,
                 ![r].pc = IF q.type = "photo" /\ q.coverImageId = None
                           THEN "album.save coverImageId" ELSE "album.save lastUpdated"]
            /\ UNCHANGED <<albums, resp>>
       [] q.pc = "album.save coverImageId" ->
            /\ albums' = IF q.albumId \in DOMAIN albums
                         THEN [albums EXCEPT ![q.albumId].coverImageId = q.mediaId] ELSE albums
            /\ \E outcome \in saveOutcomes(q.albumId \in DOMAIN albums) :
                 IF outcome = "saved"
                 THEN goto(r, "album.save lastUpdated") /\ UNCHANGED resp
                 ELSE respond(r, q.mediaId, 500, "album.save")
            /\ UNCHANGED <<media, nextMedia>>
       [] q.pc = "album.save lastUpdated" ->
            /\ \E outcome \in saveOutcomes(q.albumId \in DOMAIN albums) :
                 IF outcome = "saved"
                 THEN respond(r, q.mediaId, 201, "created")
                 ELSE respond(r, q.mediaId, 500, "album.save")
            /\ UNCHANGED <<albums, media, nextMedia>>
  /\ UNCHANGED <<trips, nextTrip, nextAlbum>>

\* bound on the Albums created while deleteAlbum and createMedia are interleaved
MaxRaceAlbums == 2

\* --- albums of a segment and of the trip with the media added before the
\* first request arrives, deleteAlbum and createMedia handled one store
\* operation at a time
NextDeleteRace ==
  \/ \E segments \in PlainItems("segment") : createTrip(segments, <<>>)
  \/ \E name \in Names, tripId \in IssuedTrips, itemId \in ItemIds, isDefault \in BOOLEAN :
       nextAlbum <= MaxRaceAlbums /\ createAlbum(name, tripId, Rel("segment", itemId), isDefault)
  \/ \E name \in Names :
       nextAlbum <= MaxRaceAlbums /\ createAlbum(name, UnknownTrip, NoRel, FALSE)
  \/ \E albumId \in AlbumIds, type \in MediaTypes :
       requests = <<>> /\ nextMedia <= MaxAlbumMedia /\ createMedia(albumId, type, "c")
  \/ \E id \in AlbumIds : receive(deleteAlbumRequest(id))
  \/ \E albumId \in AlbumIds, type \in MediaTypes : receive(createMediaRequest(albumId, type, "c"))
  \/ \E r \in 1..MaxRequests : deleteAlbumStep(r)
  \/ \E r \in 1..MaxRequests : createMediaStep(r)

SpecDeleteRace == Init /\ [][NextDeleteRace]_vars

\* C25: once a deleteAlbum request and a createMedia request for the same
\* Album, interleaved store operation by store operation, have both been
\* answered and the Album has been removed, no MediaItem is stored whose
\* albumId names that Album.
C25_RaceNoOrphan ==
  \A r1, r2 \in DOMAIN requests :
    (/\ AllDone
     /\ requests[r1].op = "deleteAlbum" /\ requests[r2].op = "createMedia"
     /\ requests[r1].id = requests[r2].albumId
     /\ requests[r1].status = 200)
    => \A m \in DOMAIN media : media[m].albumId # requests[r1].id

\* DELETE /api/media/:id, as it arrives; albumId is mediaItem.albumId, album
\* tells whether Album.findById resolved a document and anotherPhoto is the
\* photo MediaItem.findOne resolved
deleteMediaRequest(id) ==
  [op |-> "deleteMedia", id |-> id, pc |-> "MediaItem.findById", status |-> 0,
   albumId |-> None, album |-> FALSE, anotherPhoto |-> None]

\* DELETE /api/media/:id, one store operation
deleteMediaStep(r) ==
  /\ r \in DOMAIN requests
  /\ requests[r].op = "deleteMedia"
  /\ requests[r].pc # "done"
  /\ LET q == requests[r] IN
     CASE q.pc = "MediaItem.findById" ->
            /\ IF q.id \notin DOMAIN media
               THEN respond(r, q.id, 404, "notFound")
               ELSE /\ requests' = [requests EXCEPT ![r].albumId = media[q.id].albumId,
                                                    ![r].pc = "Album.findById"]
                    /\ UNCHANGED resp
            /\ UNCHANGED <<albums, media>>
       [] q.pc = "Album.findById" ->
            /\ requests' = [requests EXCEPT
                 ![r].album = q.albumId \in DOMAIN albums,
                 ![r].pc = IF isCover(q.albumId, q.id)
                           THEN "MediaItem.findOne" ELSE "mediaItem.remove"]
            /\ UNCHANGED <<albums, media, resp>>
       [] q.pc = "MediaItem.findOne" ->
            /\ \E photo \in anotherPhoto(q.albumId, q.id) :
                 requests' = [requests EXCEPT ![r].anotherPhoto = photo,
                                              ![r].pc = "album.save coverImageId"]
            /\ UNCHANGED <<albums, media, resp>>
       [] q.pc = "album.save coverImageId" ->
            /\ albums' = IF q.albumId \in DOMAIN albums
                         THEN [albums EXCEPT ![q.albumId].coverImageId = q.anotherPhoto]
                         ELSE albums
            /\ \E outcome \in saveOutcomes(q.albumId \in DOMAIN albums) :
                 IF outcome = "saved"
                 THEN goto(r, "mediaItem.remove") /\ UNCHANGED resp
                 ELSE respond(r, q.id, 500, "album.save")
            /\ UNCHANGED media
       [] q.pc = "mediaItem.remove" ->
            /\ media' = Remove(media, {q.id})
            /\ IF q.album
               THEN goto(r, "album.save lastUpdated") /\ UNCHANGED resp
               ELSE respond(r, q.id, 200, "deleted")
            /\ UNCHANGED albums
       [] q.pc = "album.save lastUpdated" ->
            /\ \E outcome \in saveOutcomes(q.albumId \in DOMAIN albums) :
                 IF outcome = "saved"
                 THEN respond(r, q.id, 200, "deleted")
                 ELSE respond(r, q.id, 500, "album.save")
            /\ UNCHANGED <<albums, media>>
  /\ UNCHANGED <<trips, nextTrip, nextAlbum, nextMedia>>

\* --- trip-level albums with the media added before the first request
\* arrives, deleteMedia handled one store operation at a time
NextMediaRace ==
  \/ \E name \in Names :
       nextAlbum <= MaxRaceAlbums /\ createAlbum(name, UnknownTrip, NoRel, FALSE)
  \/ \E albumId \in AlbumIds, type \in MediaTypes :
       requests = <<>> /\ createMedia(albumId, type, "c")
  \/ \E id \in MediaIds : receive(deleteMediaRequest(id))
  \/ \E r \in 1..MaxRequests : deleteMediaStep(r)

SpecMediaRace == Init /\ [][NextMediaRace]_vars

\* C26: once two deleteMedia requests on two photos of the same Album,
\* interleaved store operation by store operation, have both been answered,
\* the Album's coverImageId does not identify a MediaItem that is no longer
\* stored.
C26_RaceCoverStored ==
  \A r1, r2 \in DOMAIN requests :
    (/\ AllDone
     /\ r1 # r2
     /\ requests[r1].op = "deleteMedia" /\ requests[r2].op = "deleteMedia"
     /\ requests[r1].id # requests[r2].id
     /\ requests[r1].albumId = requests[r2].albumId
     /\ requests[r1].albumId \in DOMAIN albums)
    => albums[requests[r1].albumId].coverImageId \in DOMAIN media \cup {None}

====
